---- MODULE Spec2Model ----
(***************************************************************************)
(* A model of env_manager.py: the environment scanners, the discovery      *)
(* orchestrator, the in-use guard, the deletion executor and the window's  *)
(* refresh / delete tasks.                                                 *)
(*                                                                         *)
(* Python strings are sequences of one-character strings, so that          *)
(* str.startswith, the "in" substring test and str.lower are computed on   *)
(* characters.  A pathlib.Path is a sequence of components (each a string  *)
(* of characters); every path of the model is absolute once resolved.      *)
(***************************************************************************)
EXTENDS Naturals, Sequences, FiniteSets, TLC

VARIABLES
    home,       \* Path.home(): SomePath(p), or NoPath when it cannot be determined
    cwd,        \* Path.cwd(): SomePath(p), or NoPath when the directory is gone
    exe,        \* sys.executable, a string
    links,      \* symbolic links: a function from link path to target path
    fs,         \* the filesystem: a function from existing path to its kind
    conda,      \* the Conda CLI: "missing", "ok", "ok_nul", "nonzero", "malformed"
    ret,        \* the last call of an engine function, with what it returned
    all_envs,   \* MainWindow.all_envs (also the table model's rows)
    tasks,      \* the window's asyncio tasks, in creation order
    selected    \* index of the selected table row, 0 when none

vars == <<home, cwd, exe, links, fs, conda, ret, all_envs, tasks, selected>>

world == <<home, cwd, exe, links, conda>>

(***************************************************************************)
(* Bounds of the model.                                                    *)
(***************************************************************************)
\* Symbolic links followed before resolution gives up on a loop.
MaxSymlinkHops == 2

(***************************************************************************)
(* Strings.                                                                *)
(***************************************************************************)
NUL == "NUL"      \* the character chr(0)
SLASH == "/"

UPPER == <<"A","B","C","D","E","F","G","H","I","J","K","L","M",
           "N","O","P","Q","R","S","T","U","V","W","X","Y","Z">>
LOWER == <<"a","b","c","d","e","f","g","h","i","j","k","l","m",
           "n","o","p","q","r","s","t","u","v","w","x","y","z">>

\* str.lower on one character.
LowerChar(c) ==
    IF \E i \in 1..Len(UPPER) : UPPER[i] = c
    THEN LOWER[CHOOSE i \in 1..Len(UPPER) : UPPER[i] = c]
    ELSE c

\* str.lower
lower(s) == [i \in 1..Len(s) |-> LowerChar(s[i])]

\* str.startswith
startswith(s, prefix) ==
    /\ Len(prefix) <= Len(s)
    /\ SubSeq(s, 1, Len(prefix)) = prefix

\* sub in s
contains(s, sub) ==
    \E i \in 1..(Len(s) + 1) :
        /\ i + Len(sub) - 1 <= Len(s)
        /\ SubSeq(s, i, i + Len(sub) - 1) = sub

s_base == <<"b","a","s","e">>
s_pypoetry == <<"p","y","p","o","e","t","r","y">>
s_local == <<"l","o","c","a","l">>
s_virtualenvs == <<"v","i","r","t","u","a","l","e","n","v","s">>
s_dot_virtualenvs == <<".">> \o s_virtualenvs
s_dot_cache == <<".","c","a","c","h","e">>
s_dot_local == <<".">> \o s_local
s_share == <<"s","h","a","r","e">>
s_miniconda3 == <<"m","i","n","i","c","o","n","d","a","3">>
s_anaconda3 == <<"a","n","a","c","o","n","d","a","3">>
s_dot_conda == <<".","c","o","n","d","a">>
s_envs == <<"e","n","v","s">>
s_dot_venv == <<".","v","e","n","v">>
s_bin == <<"b","i","n">>
s_python == <<"p","y","t","h","o","n">>
s_home == <<"h","o","m","e">>
s_usr == <<"u","s","r">>

(***************************************************************************)
(* Paths.                                                                  *)
(***************************************************************************)
NoPath == [err |-> "unavailable", path |-> <<>>]
SomePath(p) == [err |-> "none", path |-> p]

\* Path(s): the components of a string; empty components and "." are dropped.
RECURSIVE SplitFrom(_, _, _)
SplitFrom(s, cur, acc) ==
    LET push == IF cur = <<>> \/ cur = <<".">> THEN acc ELSE Append(acc, cur)
    IN  IF s = <<>> THEN push
        ELSE IF Head(s) = SLASH THEN SplitFrom(Tail(s), <<>>, push)
        ELSE SplitFrom(Tail(s), Append(cur, Head(s)), acc)

PathParts(s) == SplitFrom(s, <<>>, <<>>)

IsAbsolute(s) == Len(s) > 0 /\ s[1] = SLASH

\* Path.as_posix() / str(Path) of an absolute path.
RECURSIVE as_posix(_)
as_posix(p) ==
    IF p = <<>> THEN <<SLASH>>
    ELSE IF Len(p) = 1 THEN <<SLASH>> \o p[1]
    ELSE as_posix(SubSeq(p, 1, Len(p) - 1)) \o <<SLASH>> \o p[Len(p)]

Parent(p) == IF p = <<>> THEN <<>> ELSE SubSeq(p, 1, Len(p) - 1)

\* Path.name
PathName(p) == IF p = <<>> THEN <<>> ELSE p[Len(p)]

\* p is q or a directory above q, component by component.
IsAncestorOrSelf(p, q) ==
    /\ Len(p) <= Len(q)
    /\ SubSeq(q, 1, Len(p)) = p

\* Path.resolve() on absolute components: symbolic links are followed and
\* ".." steps up; a link loop is an error (RuntimeError).
RECURSIVE ResolveFrom(_, _, _)
ResolveFrom(done, rest, fuel) ==
    IF rest = <<>> THEN [err |-> "none", path |-> done]
    ELSE LET c == Head(rest)
             nxt == Append(done, c)
         IN  IF c = <<".",".">> THEN ResolveFrom(Parent(done), Tail(rest), fuel)
             ELSE IF nxt \in DOMAIN links
             THEN IF fuel = 0 THEN [err |-> "RuntimeError", path |-> <<>>]
                  ELSE ResolveFrom(<<>>, links[nxt] \o Tail(rest), fuel - 1)
             ELSE ResolveFrom(nxt, Tail(rest), fuel)

ResolvePath(p) == ResolveFrom(<<>>, p, MaxSymlinkHops)

\* Path(s).resolve() of a string: a relative string is taken from the current
\* directory (OSError when that is gone); a NUL character is a ValueError.
resolve(s) ==
    IF \E i \in 1..Len(s) : s[i] = NUL
    THEN [err |-> "ValueError", path |-> <<>>]
    ELSE IF IsAbsolute(s) THEN ResolvePath(PathParts(s))
    ELSE IF cwd = NoPath THEN [err |-> "OSError", path |-> <<>>]
    ELSE ResolvePath(cwd.path \o PathParts(s))

(***************************************************************************)
(* The filesystem.                                                         *)
(***************************************************************************)
\* Kinds of node: "file"; a directory is "dir" (no marker), "venv" (holds
\* pyvenv.cfg), "meta" (holds conda-meta/), "binpy" (holds bin/python),
\* "metabin" (both), or "locked" (a directory that cannot be searched: a
\* stat of anything inside it is a PermissionError).
DirKinds == {"dir", "venv", "meta", "binpy", "metabin", "locked"}

Exists(p) == p \in DOMAIN fs

\* shutil.rmtree / conda env remove: the tree at p is gone.
RemoveTree(f, p) ==
    [q \in {q \in DOMAIN f : ~IsAncestorOrSelf(p, q)} |-> f[q]]

(***************************************************************************)
(* Environment records.                                                    *)
(***************************************************************************)
Environment(n, t, p) == [name |-> n, env_type |-> t, path |-> p]

MsgInUse == "Cannot delete the environment currently in use."
MsgCondaBase == "Cannot delete the Conda base environment."
MsgCondaRemoved == "Conda environment removed successfully."
MsgCondaError == "Error deleting Conda environment: "
MsgRemoved == "Environment removed successfully."
MsgError == "Error deleting environment: "

(***************************************************************************)
(* The in-use guard and the deletion executor.                             *)
(***************************************************************************)
Returned(v) == [exc |-> "none", val |-> v]
Raised(e) == [exc |-> e, val |-> FALSE]

\* is_current_env(env_path): the interpreter's resolved path, as a string,
\* starts with the resolved env_path, as a string.  OSError and RuntimeError
\* are caught and give False; a ValueError (NUL in the path) is not caught.
is_current_env(env_path) ==
    LET e == resolve(exe)
        p == resolve(env_path)
    IN  IF e.err = "ValueError" \/ (e.err = "none" /\ p.err = "ValueError")
        THEN Raised("ValueError")
        ELSE IF e.err # "none" \/ p.err # "none" THEN Returned(FALSE)
        ELSE Returned(startswith(as_posix(e.path), as_posix(p.path)))

\* The node a removal of the string s acts on: a path with no NUL, taken from
\* the current directory when relative, below resolved parent directories.
RemovalTarget(s) ==
    LET parts == IF IsAbsolute(s) \/ cwd = NoPath THEN PathParts(s)
                 ELSE cwd.path \o PathParts(s)
        par == ResolvePath(Parent(parts))
    IN  IF \E i \in 1..Len(s) : s[i] = NUL THEN [err |-> "ValueError", path |-> <<>>]
        ELSE IF ~IsAbsolute(s) /\ cwd = NoPath THEN [err |-> "OSError", path |-> <<>>]
        ELSE IF par.err # "none" \/ parts = <<>> THEN [err |-> "OSError", path |-> <<>>]
        ELSE IF parts \in DOMAIN links THEN [err |-> "OSError", path |-> <<>>]
        ELSE [err |-> "none", path |-> Append(par.path, PathName(parts))]

\* shutil.rmtree(path) inside try/except Exception: io_ok is whether the
\* operating system lets the removal through.
rmtree(f, s, io_ok) ==
    LET t == RemovalTarget(s)
    IN  IF /\ t.err = "none"
           /\ t.path \in DOMAIN f
           /\ f[t.path] \in DirKinds \ {"locked"}
           /\ io_ok
        THEN [ok |-> TRUE, fs |-> RemoveTree(f, t.path)]
        ELSE [ok |-> FALSE, fs |-> f]

\* subprocess.run(["conda", "env", "remove", "--prefix", path, "-y"], check=True)
\* inside try/except Exception: fails when the CLI is missing or exits non-zero.
conda_env_remove(f, s, io_ok) ==
    LET t == RemovalTarget(s)
    IN  IF /\ conda # "missing"
           /\ t.err = "none"
           /\ t.path \in DOMAIN f
           /\ f[t.path] \in DirKinds
           /\ io_ok
        THEN [ok |-> TRUE, fs |-> RemoveTree(f, t.path)]
        ELSE [ok |-> FALSE, fs |-> f]

DeleteResult(exc, success, message, started, f) ==
    [exc |-> exc, success |-> success, message |-> message,
     started |-> started, fs |-> f]

\* A deletion executor that reports success whatever the removal did.
delete_environment_always_true(env, io_ok) ==
    LET g == is_current_env(env.path)
    IN  IF g.exc # "none" THEN DeleteResult(g.exc, FALSE, "", {}, fs)
        ELSE IF g.val THEN DeleteResult("none", FALSE, MsgInUse, {}, fs)
        ELSE IF env.env_type = "Conda"
        THEN IF lower(env.name) = s_base
             THEN DeleteResult("none", FALSE, MsgCondaBase, {}, fs)
             ELSE LET r == conda_env_remove(fs, env.path, io_ok)
                  IN  DeleteResult("none", TRUE, MsgCondaRemoved, {"conda_remove"}, r.fs)
        ELSE LET r == rmtree(fs, env.path, io_ok)
             IN  DeleteResult("none", TRUE, MsgRemoved, {"rmtree"}, r.fs)

\* A deletion executor that protects only the exact name "base".
delete_environment_exact_base(env, io_ok) ==
    LET g == is_current_env(env.path)
    IN  IF g.exc # "none" THEN DeleteResult(g.exc, FALSE, "", {}, fs)
        ELSE IF g.val THEN DeleteResult("none", FALSE, MsgInUse, {}, fs)
        ELSE IF env.env_type = "Conda"
        THEN IF env.name = s_base
             THEN DeleteResult("none", FALSE, MsgCondaBase, {}, fs)
             ELSE LET r == conda_env_remove(fs, env.path, io_ok)
                  IN  DeleteResult("none", r.ok,
                                   IF r.ok THEN MsgCondaRemoved ELSE MsgCondaError,
                                   {"conda_remove"}, r.fs)
        ELSE LET r == rmtree(fs, env.path, io_ok)
             IN  DeleteResult("none", r.ok, IF r.ok THEN MsgRemoved ELSE MsgError,
                              {"rmtree"}, r.fs)

\* delete_environment(env): what it returns (or raises), the removal it
\* started, and the filesystem it leaves.
delete_environment(env, io_ok) ==
    LET g == is_current_env(env.path)
    IN  IF g.exc # "none" THEN DeleteResult(g.exc, FALSE, "", {}, fs)
        ELSE IF g.val THEN DeleteResult("none", FALSE, MsgInUse, {}, fs)
        ELSE IF env.env_type = "Conda"
        THEN IF lower(env.name) = s_base
             THEN DeleteResult("none", FALSE, MsgCondaBase, {}, fs)
             ELSE LET r == conda_env_remove(fs, env.path, io_ok)
                  IN  DeleteResult("none", r.ok,
                                   IF r.ok THEN MsgCondaRemoved ELSE MsgCondaError,
                                   {"conda_remove"}, r.fs)
        ELSE LET r == rmtree(fs, env.path, io_ok)
             IN  DeleteResult("none", r.ok, IF r.ok THEN MsgRemoved ELSE MsgError,
                              {"rmtree"}, r.fs)

(***************************************************************************)
(* The machine the program runs on.                                        *)
(***************************************************************************)
HomeU == <<s_home, <<"u">>>>
HomeLocal == <<s_home, s_local>>
HomePoetry == <<s_home, s_pypoetry>>

UsrBinPython == <<s_usr, s_bin, s_python>>

VenvBase(h) == Append(h, s_dot_virtualenvs)
PoetryBase(h) == h \o <<s_dot_cache, s_pypoetry, s_virtualenvs>>
PipenvBase(h) == h \o <<s_dot_local, s_share, s_virtualenvs>>
Miniconda(h) == Append(h, s_miniconda3)
MinicondaEnvs(h) == h \o <<s_miniconda3, s_envs>>
AnacondaEnvs(h) == h \o <<s_anaconda3, s_envs>>
DotCondaEnvs(h) == h \o <<s_dot_conda, s_envs>>
Project(h) == Append(h, <<"p","r","o","j">>)

EnvA(h) == Append(VenvBase(h), <<"a">>)
EnvAB(h) == Append(VenvBase(h), <<"a","b">>)
EnvNamedBase(h) == Append(VenvBase(h), s_base)
EnvLnk(h) == Append(VenvBase(h), <<"l","n","k">>)
EnvDotVenv(h) == Append(VenvBase(h), s_dot_venv)
EnvP(h) == Append(PoetryBase(h), <<"p">>)
EnvQ(h) == Append(PipenvBase(h), <<"q">>)
EnvC(h) == Append(MinicondaEnvs(h), <<"c">>)
EnvCondaBase(h) == Append(MinicondaEnvs(h), <<"B","a","s","e">>)
ProjectVenv(h) == Append(Project(h), s_dot_venv)
Loop(h) == Append(h, <<"l","o","o","p">>)

BinPython(env) == env \o <<s_bin, s_python>>

\* A function from the pairs <<path, kind>> of a set.
FsOf(pairs) ==
    [p \in {pr[1] : pr \in pairs} |-> (CHOOSE pr \in pairs : pr[1] = p)[2]]

(***************************************************************************)
(* The scanners.                                                           *)
(***************************************************************************)
\* os.stat through symbolic links: the kind of the node, or "absent".
Stat(p) ==
    LET r == ResolvePath(p)
    IN  IF r.err = "none" /\ r.path \in DOMAIN fs THEN fs[r.path] ELSE "absent"

\* Path.is_dir()
is_dir(p) == Stat(p) \in DirKinds

\* The entries base.iterdir() yields, in no order: directory members and
\* links alike, named below base.
IterDir(base) ==
    LET rb == ResolvePath(base).path
    IN  { Append(base, PathName(n)) :
            n \in {m \in (DOMAIN fs) \cup (DOMAIN links) :
                      m # <<>> /\ Parent(m) = rb} }

\* The orders in which a directory's entries may be yielded.
Perms(S) ==
    {o \in [1..Cardinality(S) -> S] :
        \A i, j \in 1..Cardinality(S) : i # j => o[i] # o[j]}

Ok(envs) == [exc |-> "none", envs |-> envs]
Failed(e) == [exc |-> e, envs |-> <<>>]

\* A type rule that tests "local" before "pypoetry".
env_type_for_local_first(base) ==
    IF contains(as_posix(base), s_local) THEN "Pipenv"
    ELSE IF contains(as_posix(base), s_pypoetry) THEN "Poetry"
    ELSE "venv"

\* etype = "Poetry" if "pypoetry" in str(base) else "Pipenv" if "local" in
\* str(base) else "venv"
env_type_for(base) ==
    IF contains(as_posix(base), s_pypoetry) THEN "Poetry"
    ELSE IF contains(as_posix(base), s_local) THEN "Pipenv"
    ELSE "venv"

\* A marker test that reports every directory.
venv_entry_any_dir(entry) ==
    IF ~is_dir(entry) THEN "skip"
    ELSE IF Stat(entry) = "locked" THEN "error"
    ELSE "report"

\* entry.is_dir() and (entry / "pyvenv.cfg").exists(): "report", "skip", or
\* "error" when the stat inside the entry is refused (PermissionError).
venv_entry(entry) ==
    IF ~is_dir(entry) THEN "skip"
    ELSE IF Stat(entry) = "locked" THEN "error"
    ELSE IF Stat(entry) = "venv" THEN "report"
    ELSE "skip"

\* env_dir.is_dir() and ((env_dir / "conda-meta").is_dir() or
\* (env_dir / "bin" / "python").exists())
conda_entry(entry) ==
    IF ~is_dir(entry) THEN "skip"
    ELSE IF Stat(entry) = "locked" THEN "error"
    ELSE IF Stat(entry) \in {"meta", "binpy", "metabin"} THEN "report"
    ELSE "skip"

\* The body of "for entry in base.iterdir()" inside its try: entries are
\* visited in the given order and the first error ends the loop.
RECURSIVE ScanEntries(_, _, _, _, _)
ScanEntries(base, order, i, acc, is_conda) ==
    IF i > Len(order) THEN [error |-> FALSE, envs |-> acc]
    ELSE LET entry == order[i]
             o == IF is_conda THEN conda_entry(entry) ELSE venv_entry(entry)
             env == Environment(PathName(entry),
                                IF is_conda THEN "Conda" ELSE env_type_for(base),
                                as_posix(ResolvePath(entry).path))
         IN  IF o = "error" THEN [error |-> TRUE, envs |-> acc]
             ELSE ScanEntries(base, order, i + 1,
                              IF o = "report" THEN Append(acc, env) ELSE acc,
                              is_conda)

\* One base directory: "if base.is_dir(): try: for entry in ...".
base_scan(base, order, is_conda) ==
    IF ~is_dir(base)
    THEN [base |-> base, scanned |-> FALSE, error |-> FALSE, envs |-> <<>>]
    ELSE LET r == ScanEntries(base, order, 1, <<>>, is_conda)
         IN  [base |-> base, scanned |-> TRUE, error |-> r.error, envs |-> r.envs]

VenvBases(h) == <<VenvBase(h), PoetryBase(h), PipenvBase(h)>>
CondaBases(h) == <<MinicondaEnvs(h), AnacondaEnvs(h), DotCondaEnvs(h)>>

\* The scans of three bases with the iteration order of each.
ThreeBases(bases, orders, is_conda) ==
    [i \in 1..3 |-> base_scan(bases[i], orders[i], is_conda)]

ScanResult(exc, bases, manual) ==
    [exc |-> exc,
     envs |-> IF exc = "none" /\ bases # <<>>
              THEN bases[1].envs \o bases[2].envs \o bases[3].envs ELSE <<>>,
     bases |-> bases,
     manual |-> manual]

\* scan_venv_dirs(): Path.home() is called outside any try.
scan_venv_dirs(orders) ==
    IF home.err # "none" THEN ScanResult("RuntimeError", <<>>, FALSE)
    ELSE ScanResult("none", ThreeBases(VenvBases(home.path), orders, FALSE), FALSE)

\* What "conda env list --json" prints when it works: the prefixes it knows,
\* as strings; as "ok_nul" its JSON also lists a string holding "\u0000".
CondaCliEnvs ==
    LET h == IF home.err = "none" THEN home.path ELSE HomeU
        known == <<Miniconda(h), EnvC(h), EnvCondaBase(h)>>
        there == SelectSeq(known, LAMBDA q : q \in DOMAIN fs)
        listed == [i \in 1..Len(there) |-> as_posix(there[i])]
    IN  IF conda = "ok_nul"
        THEN Append(listed, Append(as_posix(Append(h, <<"x">>)), NUL))
        ELSE listed

\* Path(path).name of a string.
NameOfString(str) ==
    LET parts == PathParts(str)
    IN  IF parts = <<>> THEN <<>> ELSE parts[Len(parts)]

\* for path in data.get("envs", []): Environment(Path(path).name, "Conda", path)
CliRecords ==
    [i \in 1..Len(CondaCliEnvs) |->
        Environment(NameOfString(CondaCliEnvs[i]), "Conda", CondaCliEnvs[i])]

\* A Conda scanner that falls back to the directories on every CLI error.
scan_conda_envs_always_fallback(orders) ==
    IF conda \in {"ok", "ok_nul"}
    THEN [exc |-> "none", envs |-> CliRecords, bases |-> <<>>, manual |-> FALSE]
    ELSE IF home.err # "none" THEN ScanResult("RuntimeError", <<>>, TRUE)
    ELSE ScanResult("none", ThreeBases(CondaBases(home.path), orders, TRUE), TRUE)

\* scan_conda_envs(): with a CLI on the search path its listing is used and
\* any error of it is caught, leaving the list empty; with none, the known
\* directories are scanned (Path.home() again outside any try).
scan_conda_envs(orders) ==
    IF conda \in {"ok", "ok_nul"}
    THEN [exc |-> "none", envs |-> CliRecords, bases |-> <<>>, manual |-> FALSE]
    ELSE IF conda \in {"nonzero", "malformed"}
    THEN [exc |-> "none", envs |-> <<>>, bases |-> <<>>, manual |-> FALSE]
    ELSE IF home.err # "none" THEN ScanResult("RuntimeError", <<>>, TRUE)
    ELSE ScanResult("none", ThreeBases(CondaBases(home.path), orders, TRUE), TRUE)

\* scan_current_dir_venv(): Path.cwd() and the marker test are outside any try.
scan_current_dir_venv ==
    IF cwd.err # "none" THEN Failed("FileNotFoundError")
    ELSE LET potential == Append(cwd.path, s_dot_venv)
         IN  IF ~is_dir(potential) THEN Ok(<<>>)
             ELSE IF Stat(potential) = "locked" THEN Failed("PermissionError")
             ELSE IF Stat(potential) = "venv"
             THEN Ok(<<Environment(PathName(cwd.path), "venv (local)",
                                   as_posix(ResolvePath(potential).path))>>)
             ELSE Ok(<<>>)

Outcome(r) == [exc |-> r.exc, envs |-> r.envs]

\* A gather without return_exceptions: the first exception is raised.
merge_results_propagating(results) ==
    IF \E i \in 1..3 : results[i].exc # "none"
    THEN [exc |-> results[CHOOSE i \in 1..3 :
                            /\ results[i].exc # "none"
                            /\ \A j \in 1..(i - 1) : results[j].exc = "none"].exc,
          envs |-> <<>>, results |-> results]
    ELSE [exc |-> "none",
          envs |-> results[1].envs \o results[2].envs \o results[3].envs,
          results |-> results]

\* The loop of scan_all_environments over the gathered results: an exception
\* is printed, a list is appended.
merge_results(results) ==
    [exc |-> "none",
     envs |-> (IF results[1].exc = "none" THEN results[1].envs ELSE <<>>)
              \o (IF results[2].exc = "none" THEN results[2].envs ELSE <<>>)
              \o (IF results[3].exc = "none" THEN results[3].envs ELSE <<>>),
     results |-> results]

\* scan_all_environments(): gather(..., return_exceptions=True), then merge.
scan_all_environments(venv_orders, conda_orders) ==
    merge_results(<<Outcome(scan_venv_dirs(venv_orders)),
                    Outcome(scan_conda_envs(conda_orders)),
                    scan_current_dir_venv>>)

(***************************************************************************)
(* GuardSpec: is_current_env and delete_environment called on a machine    *)
(* whose interpreter is a system one, or lives in an environment (as a     *)
(* file of its own or, as venv makes it, a link to the system one).        *)
(***************************************************************************)
GuardFs ==
    FsOf({ <<VenvBase(HomeU), "dir">>,
           <<EnvA(HomeU), "venv">>,
           <<EnvAB(HomeU), "venv">>,
           <<EnvNamedBase(HomeU), "venv">>,
           <<Miniconda(HomeU), "metabin">>,
           <<MinicondaEnvs(HomeU), "dir">>,
           <<EnvC(HomeU), "meta">>,
           <<EnvCondaBase(HomeU), "meta">>,
           <<Project(HomeU), "dir">>,
           <<ProjectVenv(HomeU), "venv">> })

\* Links every machine has: a link to an environment, and a link loop.
GuardLinks ==
    FsOf({ <<EnvLnk(HomeU), EnvAB(HomeU)>>,
           <<Loop(HomeU), Loop(HomeU)>> })

\* sys.executable, and whether it is a link to the system interpreter.
GuardInterpreters ==
    { [exe |-> UsrBinPython, linked |-> FALSE],
      [exe |-> BinPython(EnvAB(HomeU)), linked |-> FALSE],
      [exe |-> BinPython(EnvAB(HomeU)), linked |-> TRUE],
      [exe |-> BinPython(ProjectVenv(HomeU)), linked |-> FALSE],
      [exe |-> BinPython(ProjectVenv(HomeU)), linked |-> TRUE],
      [exe |-> BinPython(Miniconda(HomeU)), linked |-> FALSE] }

s_gone == as_posix(Append(HomeU, <<"g","o","n","e">>))
s_nul == Append(as_posix(Append(HomeU, <<"x">>)), NUL)
s_in_loop == as_posix(Append(Loop(HomeU), <<"x">>))
s_usr_bin_pyth == <<"/","u","s","r","/","b","i","n","/","p","y","t","h">>

\* The Environment records handed to delete_environment.
GuardEnvs ==
    { Environment(<<"a">>, "venv", as_posix(EnvA(HomeU))),
      Environment(<<"a","b">>, "venv", as_posix(EnvAB(HomeU))),
      Environment(<<"l","n","k">>, "venv", as_posix(EnvLnk(HomeU))),
      Environment(s_base, "venv", as_posix(EnvNamedBase(HomeU))),
      Environment(<<"p","r","o","j">>, "venv (local)", s_dot_venv),
      Environment(<<"c">>, "Conda", as_posix(EnvC(HomeU))),
      Environment(<<"B","a","s","e">>, "Conda", as_posix(EnvCondaBase(HomeU))),
      Environment(s_base, "Conda", as_posix(Miniconda(HomeU))),
      Environment(<<"B","A","S","E">>, "Conda", as_posix(Miniconda(HomeU))),
      Environment(s_miniconda3, "Conda", as_posix(Miniconda(HomeU))),
      Environment(<<"g","o","n","e">>, "venv", s_gone),
      Environment(<<"x">>, "Conda", s_nul),
      Environment(<<"x">>, "venv", s_in_loop) }

\* The strings handed to is_current_env.
GuardPaths ==
    ({e.path : e \in GuardEnvs} \ {s_nul})
        \cup { as_posix(VenvBase(HomeU)), <<SLASH>>, s_usr_bin_pyth,
               as_posix(<<s_usr, s_bin>>) }

NoCall == [fn |-> "none"]

UIIdle ==
    /\ all_envs = <<>>
    /\ tasks = <<>>
    /\ selected = 0

GuardInit ==
    /\ home = SomePath(HomeU)
    /\ cwd = SomePath(Project(HomeU))
    /\ \E i \in GuardInterpreters :
        /\ exe = as_posix(i.exe)
        /\ links = IF i.linked
                   THEN FsOf({<<i.exe, UsrBinPython>>,
                              <<EnvLnk(HomeU), EnvAB(HomeU)>>,
                              <<Loop(HomeU), Loop(HomeU)>>})
                   ELSE GuardLinks
    /\ fs = GuardFs
    /\ conda \in {"missing", "ok"}
    /\ ret = NoCall
    /\ UIIdle

\* A caller asks is_current_env about a path.
IsCurrentEnv ==
    \E s \in GuardPaths :
        /\ ret = NoCall
        /\ ret' = [fn |-> "is_current_env", arg |-> s, out |-> is_current_env(s)]
        /\ UNCHANGED <<world, fs, all_envs, tasks, selected>>

\* A caller awaits delete_environment(env).
DeleteEnvironment ==
    \E env \in GuardEnvs, io_ok \in BOOLEAN :
        LET r == delete_environment(env, io_ok)
        IN  /\ ret = NoCall
            /\ ret' = [fn |-> "delete_environment", env |-> env,
                       exc |-> r.exc, success |-> r.success,
                       message |-> r.message, started |-> r.started,
                       before |-> fs]
            /\ fs' = r.fs
            /\ UNCHANGED <<world, all_envs, tasks, selected>>

\* The caller has taken the result.
Return ==
    /\ ret # NoCall
    /\ ret' = NoCall
    /\ UNCHANGED <<world, fs, all_envs, tasks, selected>>

GuardNext == IsCurrentEnv \/ DeleteEnvironment \/ Return

GuardSpec == GuardInit /\ [][GuardNext]_vars

(***************************************************************************)
(* ScanSpec: the scanners and scan_all_environments called on machines     *)
(* that differ in the home directory, the current directory, the Conda     *)
(* CLI and what the base directories hold.                                 *)
(***************************************************************************)
ScanFs(h, ka, kc, kv) ==
    FsOf({ <<VenvBase(h), "dir">>,
           <<EnvA(h), ka>>,
           <<EnvAB(h), "venv">>,
           <<PoetryBase(h), "dir">>,
           <<EnvP(h), "venv">>,
           <<PipenvBase(h), "dir">>,
           <<EnvQ(h), "venv">>,
           <<Miniconda(h), "metabin">>,
           <<MinicondaEnvs(h), "dir">>,
           <<EnvC(h), kc>>,
           <<EnvCondaBase(h), "binpy">>,
           <<AnacondaEnvs(h), "dir">>,
           <<Project(h), "dir">>,
           <<ProjectVenv(h), kv>> })

ScanHomes == {HomeU, HomeLocal, HomePoetry}

ScanInit ==
    /\ \E h \in ScanHomes :
        /\ home \in {SomePath(h), NoPath}
        /\ cwd \in {SomePath(Project(h)), NoPath}
        /\ links = FsOf({<<EnvLnk(h), EnvAB(h)>>})
        /\ \E ka \in {"venv", "dir", "file", "locked"},
              kc \in {"meta", "binpy", "metabin", "dir", "locked"},
              kv \in {"venv", "locked"} :
            /\ fs = ScanFs(h, ka, kc, kv)
            /\ conda \in IF kc = "meta" THEN {"missing", "ok", "nonzero", "malformed"}
                         ELSE {"missing"}
    /\ exe = as_posix(UsrBinPython)
    /\ ret = NoCall
    /\ UIIdle

HomeOrU == IF home.err = "none" THEN home.path ELSE HomeU

\* The iteration orders of three base directories.
Orders(bases) ==
    {<<o1, o2, o3>> : o1 \in Perms(IterDir(bases[1])),
                      o2 \in Perms(IterDir(bases[2])),
                      o3 \in Perms(IterDir(bases[3]))}

ScanVenvDirs ==
    \E orders \in Orders(VenvBases(HomeOrU)) :
        /\ ret = NoCall
        /\ ret' = [fn |-> "scan_venv_dirs", out |-> scan_venv_dirs(orders)]
        /\ UNCHANGED <<world, fs, all_envs, tasks, selected>>

ScanCondaEnvs ==
    \E orders \in Orders(CondaBases(HomeOrU)) :
        /\ ret = NoCall
        /\ ret' = [fn |-> "scan_conda_envs", out |-> scan_conda_envs(orders)]
        /\ UNCHANGED <<world, fs, all_envs, tasks, selected>>

ScanCurrentDirVenv ==
    /\ ret = NoCall
    /\ ret' = [fn |-> "scan_current_dir_venv", out |-> scan_current_dir_venv]
    /\ UNCHANGED <<world, fs, all_envs, tasks, selected>>

ScanAllEnvironments ==
    \E vo \in Orders(VenvBases(HomeOrU)), co \in Orders(CondaBases(HomeOrU)) :
        /\ ret = NoCall
        /\ ret' = [fn |-> "scan_all_environments",
                   out |-> scan_all_environments(vo, co)]
        /\ UNCHANGED <<world, fs, all_envs, tasks, selected>>

ScanNext ==
    \/ ScanVenvDirs
    \/ ScanCondaEnvs
    \/ ScanCurrentDirVenv
    \/ ScanAllEnvironments
    \/ Return

ScanSpec == ScanInit /\ [][ScanNext]_vars

(***************************************************************************)
(* UISpec: the window.  Each click starts an asyncio task; a task advances *)
(* from one await (or modal dialog) to the next, and tasks interleave.     *)
(***************************************************************************)
\* Tasks the window starts in one run, the refresh at startup included.
MaxTasks == 3

Pending == [exc |-> "pending", envs |-> <<>>]
NoEnv == Environment(<<>>, "", <<>>)
NoOutcome == [exc |-> "none", success |-> FALSE, message |-> ""]

\* A task running refresh_environments, suspended in scan_all_environments;
\* a delete_selected that got there keeps what its deletion came to.
Scanning(kind, outcome) ==
    [kind |-> kind, pc |-> "scanning", env |-> NoEnv, outcome |-> outcome,
     results |-> <<Pending, Pending, Pending>>]

\* A task that has returned.
Done(kind) ==
    [kind |-> kind, pc |-> "done", env |-> NoEnv, outcome |-> NoOutcome,
     results |-> <<Pending, Pending, Pending>>]

\* A list that is taken as it is.
dedup_by_path_keep_all(envs) == envs

\* list({env.path: env for env in envs}.values()): one record per path, at
\* the place of the path's first record and with the value of its last.
dedup_by_path(envs) ==
    LET firsts == SelectSeq([i \in 1..Len(envs) |-> i],
                            LAMBDA i : \A j \in 1..(i - 1) : envs[j].path # envs[i].path)
        last(i) == CHOOSE j \in 1..Len(envs) :
                       /\ envs[j].path = envs[i].path
                       /\ \A k \in (j + 1)..Len(envs) : envs[k].path # envs[i].path
    IN  [n \in 1..Len(firsts) |-> envs[last(firsts[n])]]

\* A delete_selected that refreshes only after a successful deletion.
after_deletion_success_only(outcome) ==
    IF outcome.exc = "none" /\ outcome.success THEN "scanning" ELSE "done"

\* delete_selected after the try/except around delete_environment and its
\* message box: "await self.refresh_environments()" whatever the outcome.
after_deletion(outcome) == "scanning"

UIFs ==
    FsOf({ <<VenvBase(HomeU), "dir">>,
           <<EnvDotVenv(HomeU), "venv">>,
           <<MinicondaEnvs(HomeU), "dir">>,
           <<EnvC(HomeU), "meta">> })

UIInit ==
    /\ home = SomePath(HomeU)
    /\ cwd = SomePath(VenvBase(HomeU))
    /\ \/ exe = as_posix(UsrBinPython) /\ conda = "ok_nul"
       \/ exe = as_posix(BinPython(EnvDotVenv(HomeU))) /\ conda = "missing"
    /\ links = FsOf({<<Loop(HomeU), Loop(HomeU)>>})
    /\ fs = UIFs
    /\ ret = NoCall
    /\ all_envs = <<>>
    /\ selected = 0
    \* QTimer.singleShot(0, ... create_task(self.refresh_environments()))
    /\ tasks = <<Scanning("refresh", NoOutcome)>>

SetTask(i, t) == [tasks EXCEPT ![i] = t]

\* on_refresh_clicked
ClickRefresh ==
    /\ Len(tasks) < MaxTasks
    /\ tasks' = Append(tasks, Scanning("refresh", NoOutcome))
    /\ UNCHANGED <<world, fs, ret, all_envs, selected>>

\* The user selects a row of the table.
SelectRow ==
    \E i \in 1..Len(all_envs) :
        /\ selected # i
        /\ selected' = i
        /\ UNCHANGED <<world, fs, ret, all_envs, tasks>>

\* on_delete_clicked, delete_selected up to its first dialog: with no row
\* selected a warning is shown and the task returns; otherwise the
\* confirmation question is open.
ClickDelete ==
    /\ Len(tasks) < MaxTasks
    /\ \/ /\ selected = 0
          /\ tasks' = Append(tasks, Done("delete"))
       \/ /\ selected # 0
          /\ tasks' = Append(tasks, [kind |-> "delete", pc |-> "confirm",
                                     env |-> all_envs[selected],
                                     outcome |-> NoOutcome,
                                     results |-> <<Pending, Pending, Pending>>])
    /\ UNCHANGED <<world, fs, ret, all_envs, selected>>

\* The user answers the confirmation question.
AnswerYes(i) ==
    /\ tasks[i].pc = "confirm"
    /\ tasks' = SetTask(i, [tasks[i] EXCEPT !.pc = "deleting"])
    /\ UNCHANGED <<world, fs, ret, all_envs, selected>>

AnswerNo(i) ==
    /\ tasks[i].pc = "confirm"
    /\ tasks' = SetTask(i, Done("delete"))
    /\ UNCHANGED <<world, fs, ret, all_envs, selected>>

\* await delete_environment(env) inside try/except Exception; the message box
\* with the outcome is then open.
RunDelete(i) ==
    /\ tasks[i].pc = "deleting"
    /\ \E io_ok \in BOOLEAN :
        LET r == delete_environment(tasks[i].env, io_ok)
        IN  /\ fs' = r.fs
            /\ tasks' = SetTask(i, [tasks[i] EXCEPT
                            !.pc = "notice",
                            !.outcome = [exc |-> r.exc, success |-> r.success,
                                         message |-> r.message]])
    /\ UNCHANGED <<world, ret, all_envs, selected>>

\* The user closes the message box; delete_selected goes on.
CloseNotice(i) ==
    /\ tasks[i].pc = "notice"
    /\ tasks' = SetTask(i, IF after_deletion(tasks[i].outcome) = "scanning"
                           THEN Scanning("delete", tasks[i].outcome) ELSE Done("delete"))
    /\ UNCHANGED <<world, fs, ret, all_envs, selected>>

\* One of the three scanner threads of a refresh runs and ends.
ScannerDone(i) ==
    /\ tasks[i].pc = "scanning"
    /\ \/ /\ tasks[i].results[1] = Pending
          /\ \E o \in Orders(VenvBases(HomeOrU)) :
                tasks' = SetTask(i, [tasks[i] EXCEPT
                                        !.results[1] = Outcome(scan_venv_dirs(o))])
       \/ /\ tasks[i].results[2] = Pending
          /\ \E o \in Orders(CondaBases(HomeOrU)) :
                tasks' = SetTask(i, [tasks[i] EXCEPT
                                        !.results[2] = Outcome(scan_conda_envs(o))])
       \/ /\ tasks[i].results[3] = Pending
          /\ tasks' = SetTask(i, [tasks[i] EXCEPT
                                        !.results[3] = scan_current_dir_venv])
    /\ UNCHANGED <<world, fs, ret, all_envs, selected>>

\* gather is complete: scan_all_environments returns, refresh_environments
\* removes duplicates, stores the list and resets the table model.
ApplyRefresh(i) ==
    /\ tasks[i].pc = "scanning"
    /\ \A k \in 1..3 : tasks[i].results[k] # Pending
    /\ LET scan == merge_results(tasks[i].results)
       IN  /\ ret' = [fn |-> "refresh_environments", out |-> scan]
           /\ all_envs' = IF scan.exc = "none" THEN dedup_by_path(scan.envs)
                          ELSE all_envs
           /\ selected' = IF scan.exc = "none" THEN 0 ELSE selected
    /\ tasks' = SetTask(i, Done(tasks[i].kind))
    /\ UNCHANGED <<world, fs>>

UINext ==
    \/ ClickRefresh
    \/ SelectRow
    \/ ClickDelete
    \/ \E i \in 1..Len(tasks) : AnswerYes(i)
    \/ \E i \in 1..Len(tasks) : AnswerNo(i)
    \/ \E i \in 1..Len(tasks) : RunDelete(i)
    \/ \E i \in 1..Len(tasks) : CloseNotice(i)
    \/ \E i \in 1..Len(tasks) : ScannerDone(i)
    \/ \E i \in 1..Len(tasks) : ApplyRefresh(i)

UISpec == UIInit /\ [][UINext]_vars

\* A step that no click or answer is needed for: a task that can run, a
\* worker thread, or a message box that the user closes.
Progress ==
    \E i \in 1..Len(tasks) :
        RunDelete(i) \/ CloseNotice(i) \/ ScannerDone(i) \/ ApplyRefresh(i)

\* Such a step is possible exactly when some task is at an await or at a
\* message box.
CanProgress ==
    \E i \in 1..Len(tasks) : tasks[i].pc \in {"deleting", "notice", "scanning"}

\* The event loop does not stop while such a step is possible: weak fairness
\* of Progress, with ENABLED <<Progress>>_vars written out as CanProgress.  A
\* window starts at most MaxTasks tasks and each task takes finitely many
\* steps, so every task gets its turn.  (Answering the confirmation question
\* is left to the user.)
UIFairness == []<>(~CanProgress) \/ []<><<Progress>>_vars

FairUISpec == UISpec /\ UIFairness

(***************************************************************************)
(* Properties of the guard and of deletion (GuardSpec).                    *)
(***************************************************************************)
IsDeleteCall == ret.fn = "delete_environment"

\* The directory a path string names exists in the filesystem f.
DirectoryAt(f, s) ==
    LET t == RemovalTarget(s)
    IN  t.err = "none" /\ t.path \in DOMAIN f

\* The file sys.executable lies in a directory under the path s: the
\* environment at s is the one whose interpreter is running.
InterpreterLivesUnder(s) ==
    LET p == resolve(s)
        d == ResolvePath(Parent(PathParts(exe)))
    IN  p.err = "none" /\ d.err = "none" /\ IsAncestorOrSelf(p.path, d.path)

\* s resolves to the interpreter's resolved path or to a directory above it.
AboveResolvedInterpreter(s) ==
    LET p == resolve(s)
        e == resolve(exe)
    IN  p.err = "none" /\ e.err = "none" /\ IsAncestorOrSelf(p.path, e.path)

ProtectedCondaBase(env) == env.env_type = "Conda" /\ lower(env.name) = s_base

Refused(message) ==
    /\ ret.exc = "none"
    /\ ret.success = FALSE
    /\ ret.message = message
    /\ ret.started = {}
    /\ fs = ret.before

\* C1: whenever the running interpreter lives under env.path (the environment
\* is the one in use), delete_environment returns (False, in-use message),
\* starts neither rmtree nor conda remove and leaves the filesystem as it was.
C1_InUseIsRefused ==
    (IsDeleteCall /\ InterpreterLivesUnder(ret.env.path)) => Refused(MsgInUse)

\* C2: deleting a Conda environment named "base" in any letter casing returns
\* (False, Conda-base message) and starts no removal.
C2_CondaBaseMessage ==
    (IsDeleteCall /\ ProtectedCondaBase(ret.env)) => Refused(MsgCondaBase)

\* C2, amended: deleting a Conda environment named "base" in any letter casing
\* starts no removal and changes nothing; when the call returns, it returns
\* False with the in-use message if the in-use guard holds (it is tested
\* first) and with the Conda-base message otherwise.
C2_CondaBaseNeverRemoved ==
    (IsDeleteCall /\ ProtectedCondaBase(ret.env)) =>
        /\ ret.started = {}
        /\ fs = ret.before
        /\ ret.exc = "none" =>
            /\ ret.success = FALSE
            /\ ret.message = IF is_current_env(ret.env.path).val
                             THEN MsgInUse ELSE MsgCondaBase

C2_Witness ==
    /\ IsDeleteCall
    /\ ret.env.env_type = "Conda"
    /\ ret.env.name = <<"B","A","S","E">>
    /\ DirectoryAt(ret.before, ret.env.path)
    /\ ret.success = FALSE
    /\ ret.message = MsgCondaBase

\* C4: is_current_env(path) returns False (and does not raise) for every path
\* that is not the interpreter's resolved path or a directory above it.
C4_FalseUnlessAncestor ==
    (ret.fn = "is_current_env" /\ ~AboveResolvedInterpreter(ret.arg)) =>
        ret.out = Returned(FALSE)

Reports(b, entry) ==
    Cardinality({k \in 1..Len(b.envs) : b.envs[k].name = PathName(entry)})

\* The entry is a directory holding the marker the scan looks for.
HasMarker(entry, is_conda) ==
    IF is_conda THEN Stat(entry) \in {"meta", "binpy", "metabin"}
    ELSE Stat(entry) = "venv"

\* A call of one of the two scanners that scan base directories.
IsBaseScan ==
    /\ ret.fn \in {"scan_venv_dirs", "scan_conda_envs"}
    /\ ret.out.exc = "none"
    /\ ret.out.bases # <<>>

\* C6: scan_all_environments never raises; when a scanner fails with an
\* exception the call returns normally and its result holds every record of
\* each scanner that succeeded, and nothing else.
C6_ScanAllNeverRaises ==
    ret.fn = "scan_all_environments" =>
        LET r == ret.out.results
            good == {i \in 1..3 : r[i].exc = "none"}
        IN  /\ ret.out.exc = "none"
            /\ \A i \in good : \A k \in 1..Len(r[i].envs) :
                   \E j \in 1..Len(ret.out.envs) : ret.out.envs[j] = r[i].envs[k]
            /\ \A j \in 1..Len(ret.out.envs) :
                   \E i \in good : \E k \in 1..Len(r[i].envs) :
                       ret.out.envs[j] = r[i].envs[k]

C6_Witness ==
    /\ ret.fn = "scan_all_environments"
    /\ ret.out.exc = "none"
    /\ ret.out.results[3].exc = "FileNotFoundError"
    /\ ret.out.results[1].exc = "none"
    /\ Len(ret.out.results[1].envs) > 0
    /\ Len(ret.out.envs) >= Len(ret.out.results[1].envs)

\* C7: in every base-directory scan each immediate subdirectory holding the
\* marker is reported exactly once and an entry lacking it is never reported.
C7_EveryBaseScan ==
    IsBaseScan =>
        \A i \in 1..3 :
            LET b == ret.out.bases[i]
            IN  b.scanned =>
                    \A entry \in IterDir(b.base) :
                        Stat(entry) # "locked" =>
                            Reports(b, entry) =
                                IF HasMarker(entry, ret.out.manual) THEN 1 ELSE 0

\* C7, amended: in every base-directory scan that meets no I/O error the
\* above holds; a scan stopped by an error (an entry that cannot be searched)
\* reports no entry twice and none lacking the marker, and may leave out
\* marker-bearing entries it had not reached.
C7_ErrorFreeBaseScan ==
    IsBaseScan =>
        \A i \in 1..3 :
            LET b == ret.out.bases[i]
            IN  /\ (b.scanned /\ ~b.error) =>
                    \A entry \in IterDir(b.base) :
                        Reports(b, entry) =
                            IF HasMarker(entry, ret.out.manual) THEN 1 ELSE 0
                /\ (b.scanned /\ b.error) =>
                    \A entry \in IterDir(b.base) :
                        Reports(b, entry) <=
                            IF HasMarker(entry, ret.out.manual) THEN 1 ELSE 0
                /\ ~b.scanned => b.envs = <<>>

C7_Witness ==
    /\ IsBaseScan
    /\ ret.out.manual
    /\ ret.out.bases[1].scanned
    /\ ~ret.out.bases[1].error
    /\ Stat(EnvC(home.path)) = "metabin"
    /\ Reports(ret.out.bases[1], EnvC(home.path)) = 1
    /\ Reports(ret.out.bases[1], EnvCondaBase(home.path)) = 1

\* Every marker-bearing entry of the known Conda directories is in the result.
FallbackReportsAll ==
    \A i \in 1..3 :
        LET base == CondaBases(home.path)[i]
        IN  is_dir(base) =>
                \A entry \in IterDir(base) :
                    HasMarker(entry, TRUE) =>
                        \E k \in 1..Len(ret.out.envs) :
                            /\ ret.out.envs[k].name = PathName(entry)
                            /\ ret.out.envs[k].env_type = "Conda"
                            /\ ret.out.envs[k].path = as_posix(ResolvePath(entry).path)

NoScanError ==
    /\ home.err = "none"
    /\ \A i \in 1..3 : \A entry \in IterDir(CondaBases(home.path)[i]) :
           Stat(entry) # "locked"

\* C8: every error of the Conda CLI while listing (CLI missing, non-zero
\* exit, unparseable output) is contained in the scanner and triggers the
\* directory scan, so the environments in the known directories are reported.
C8_CliErrorsFallBack ==
    (/\ ret.fn = "scan_conda_envs"
     /\ conda \in {"missing", "nonzero", "malformed"}
     /\ NoScanError) =>
        /\ ret.out.exc = "none"
        /\ ret.out.manual
        /\ FallbackReportsAll

\* C8, amended: a missing CLI triggers the directory scan, which (the home
\* directory being known and no entry refusing access) reports the
\* environments of the known directories; a CLI that exits non-zero or
\* prints unparseable output is contained in the scanner, which then returns
\* an empty list without scanning the directories.
C8_OnlyMissingFallsBack ==
    ret.fn = "scan_conda_envs" =>
        /\ conda = "missing" =>
            /\ ret.out.manual
            /\ NoScanError => (ret.out.exc = "none" /\ FallbackReportsAll)
        /\ conda \in {"nonzero", "malformed"} =>
            /\ ret.out.exc = "none"
            /\ ~ret.out.manual
            /\ ret.out.envs = <<>>

C8_Witness ==
    /\ ret.fn = "scan_conda_envs"
    /\ conda = "missing"
    /\ NoScanError
    /\ ret.out.manual
    /\ \E k \in 1..Len(ret.out.envs) :
           ret.out.envs[k] =
               Environment(<<"c">>, "Conda", as_posix(EnvC(home.path)))

\* The record is the one of an entry of the base: named after the directory,
\* with its resolved path.
NamedAfterEntry(env, base) ==
    \E entry \in IterDir(base) :
        /\ env.name = PathName(entry)
        /\ env.path = as_posix(ResolvePath(entry).path)

TypesByBase == <<"venv", "Poetry", "Pipenv">>

\* C9: for every home directory the venv-family scanner types a record by its
\* base: "venv" under .virtualenvs, "Poetry" under the Poetry cache, "Pipenv"
\* under the local-share directory; the name is the directory's name.
C9_TypedByBase ==
    (ret.fn = "scan_venv_dirs" /\ ret.out.exc = "none") =>
        \A i \in 1..3 : \A k \in 1..Len(ret.out.bases[i].envs) :
            /\ ret.out.bases[i].envs[k].env_type = TypesByBase[i]
            /\ NamedAfterEntry(ret.out.bases[i].envs[k], ret.out.bases[i].base)

\* The type the substring rule gives the i-th base under the home directory.
TypeUnderHome(i) ==
    IF contains(as_posix(home.path), s_pypoetry) THEN "Poetry"
    ELSE IF contains(as_posix(home.path), s_local)
    THEN <<"Pipenv", "Poetry", "Pipenv">>[i]
    ELSE TypesByBase[i]

\* C9, amended: the types are those of C9 when the home directory's path
\* contains neither "pypoetry" nor "local"; a home path containing "pypoetry"
\* makes every record "Poetry", and one containing "local" (and not
\* "pypoetry") makes the records under .virtualenvs "Pipenv".
C9_TypedBySubstring ==
    (ret.fn = "scan_venv_dirs" /\ ret.out.exc = "none") =>
        \A i \in 1..3 : \A k \in 1..Len(ret.out.bases[i].envs) :
            /\ ret.out.bases[i].envs[k].env_type = TypeUnderHome(i)
            /\ NamedAfterEntry(ret.out.bases[i].envs[k], ret.out.bases[i].base)

C9_Witness ==
    /\ ret.fn = "scan_venv_dirs"
    /\ ret.out.exc = "none"
    /\ home = SomePath(HomeU)
    /\ \E k \in 1..Len(ret.out.bases[1].envs) :
           ret.out.bases[1].envs[k] =
               Environment(<<"a">>, "venv", as_posix(EnvA(HomeU)))
    /\ ret.out.bases[2].envs =
           <<Environment(<<"p">>, "Poetry", as_posix(EnvP(HomeU)))>>
    /\ ret.out.bases[3].envs =
           <<Environment(<<"q">>, "Pipenv", as_posix(EnvQ(HomeU)))>>

(***************************************************************************)
(* Properties of the window (UISpec, FairUISpec).                          *)
(***************************************************************************)
IsRefresh == ret.fn = "refresh_environments" /\ ret.out.exc = "none"

NoPathTwice(envs) ==
    \A i, j \in 1..Len(envs) : envs[i].path = envs[j].path => i = j

\* The last record of envs that has the path of envs[i].
LastSeen(envs, i) ==
    envs[CHOOSE j \in 1..Len(envs) :
            /\ envs[j].path = envs[i].path
            /\ \A k \in (j + 1)..Len(envs) : envs[k].path # envs[i].path]

\* C3 as stated: the sequence scan_all_environments returns to
\* refresh_environments holds no two records with the same path.
C3_ScanAllDeduplicated == IsRefresh => NoPathTwice(ret.out.envs)

\* C3 amended: the list refresh_environments stores in the window is
\* deduplicated by path.  It holds exactly the paths of the sequence that
\* scan_all_environments returned, each once, with the record seen last.
C3_WindowListDeduplicated ==
    IsRefresh =>
        /\ NoPathTwice(all_envs)
        /\ \A i \in 1..Len(ret.out.envs) :
              \E n \in 1..Len(all_envs) : all_envs[n] = LastSeen(ret.out.envs, i)
        /\ \A n \in 1..Len(all_envs) :
              \E i \in 1..Len(ret.out.envs) : all_envs[n] = ret.out.envs[i]

\* Two scanners reported one path with different types, and the window
\* shows it once, as the later scanner typed it.
C3_Witness ==
    /\ IsRefresh
    /\ \E i, j \in 1..Len(ret.out.envs) :
          /\ i < j
          /\ ret.out.envs[i].path = ret.out.envs[j].path
          /\ ret.out.envs[i].env_type # ret.out.envs[j].env_type
          /\ \E n \in 1..Len(all_envs) : all_envs[n] = ret.out.envs[j]
    /\ Len(all_envs) < Len(ret.out.envs)

IsTask(i) == i \in 1..Len(tasks)

DeletedDirs == (DOMAIN UIFs) \ (DOMAIN fs)

\* No task is in flight.
AllTasksDone == \A i \in 1..Len(tasks) : tasks[i].pc = "done"

\* C11: under any interleaving of the refresh and delete tasks, once a
\* deletion has succeeded and every task has completed, all_envs (the table
\* model's rows) holds no record whose path is the deleted directory.
C11_NoDeletedRecordAtRest ==
    AllTasksDone =>
        \A d \in DeletedDirs : \A n \in 1..Len(all_envs) :
            all_envs[n].path # as_posix(d)

====
